---------------------------- MODULE Spec2Model ----------------------------
(***************************************************************************)
(* Game Boy link port emulation: the Controller (console side) and         *)
(* Peripheral bit engines of game-boy-link-driver, and the printer FSM,    *)
(* RLE decoder and event loop of game-boy-link-online-rpi.                 *)
(*                                                                         *)
(* A line level is a BOOLEAN (TRUE = high).  A byte is a number 0..255.    *)
(* Result<Option<u8>, E> is a record [kind |-> "none"], [kind |-> "byte",  *)
(* byte |-> b] or [kind |-> "err"].                                        *)
(***************************************************************************)
EXTENDS Integers, Sequences, FiniteSets, TLC

VARIABLES
    controller,            \* Controller { high, gb_sin, gb_sout, gb_bit, send_buf }
    c_out,                 \* what the last Controller::send call returned and did on the bus
    c_tx,                  \* history: the byte last popped and its completed sample phases
    c_prev,                \* history: the engine and the SIN level before the last failed send call
    peripheral,            \* Peripheral { gb_sin, gb_sout, gb_bit, recv_buf }
    p_out,                 \* what the last Peripheral::recv call returned and did on the bus,
                           \* or the engine that reset() was just called on
    p_trace,               \* history: the calls since the last byte boundary
    sck,                   \* level of SCK (the AtomicSck mirror in main_loop)
    sin,                   \* level last written to SIN
    sout,                  \* level last written to SOUT
    printer_state,         \* main_loop: the PrinterState value
    last_line_event_type,  \* main_loop: the debouncer memory
    loop_st,               \* main_loop: "running", "failed" (returned Err) or "ended" (Ok)
    console_tx,            \* environment: the byte the console is clocking out, its position,
                           \* and the bytes it will send next
    ev,                    \* history: what the last iteration of main_loop did
    resp,                  \* history: the response bytes pushed and the SIN levels since
    fsm_g,                 \* fold of transition over garbage followed by a packet
    fsm_p,                 \* fold of transition over the packet alone
    feed,                  \* history: what has been fed to fsm_g and fsm_p
    ticks,                 \* loopback: number of Controller ticks made
    lb,                    \* loopback: the bytes each engine returned
    rle,                   \* decompress_data: an encoding, what it encodes and what it decodes to
    pkt                    \* transition folded over one packet: the bytes fed and the result

ctlVars  == <<controller, c_out, c_tx, c_prev>>
perVars  == <<peripheral, p_out, p_trace>>
lineVars == <<sck, sin, sout>>
loopVars == <<printer_state, last_line_event_type, loop_st, console_tx, ev, resp>>
fsmVars  == <<fsm_g, fsm_p, feed>>
lbVars   == <<ticks, lb>>
pureVars == <<rle, pkt>>
vars == <<controller, c_out, c_tx, c_prev, peripheral, p_out, p_trace, sck, sin, sout,
          printer_state, last_line_event_type, loop_st, console_tx, ev, resp,
          fsm_g, fsm_p, feed, ticks, lb, rle, pkt>>

-----------------------------------------------------------------------------
(* u8 arithmetic                                                           *)

\* Bit i (0 = least significant) of byte b.
Bit(b, i) == (b \div (2 ^ i)) % 2

\* The level of the most significant bit: `x & 0x80 > 0`.
Msb(b) == Bit(b, 7) = 1

\* `x <<= 1` on a u8.
Shl1(b) == (b * 2) % 256

\* `x |= if level { 1 } else { 0 }` on a u8.
OrBit(b, level) == IF level /\ b % 2 = 0 THEN b + 1 ELSE b

\* The byte whose bits, most significant first, are the levels of `levels`.
RECURSIVE BitsValue(_)
BitsValue(levels) ==
    IF levels = <<>> THEN 0
    ELSE 2 * BitsValue(SubSeq(levels, 1, Len(levels) - 1))
         + (IF levels[Len(levels)] THEN 1 ELSE 0)

\* The 8 levels of byte b, most significant first.
ByteLevels(b) == [i \in 1..8 |-> Bit(b, 8 - i) = 1]

None == [kind |-> "none"]
Some(b) == [kind |-> "byte", byte |-> b]
Err == [kind |-> "err"]

NoByte == -1

-----------------------------------------------------------------------------
(* ArrayDeque<[u8; BUF_LEN], Wrapping>                                     *)

BUF_LEN == 2048

\* push_back on a Wrapping deque: when full, the oldest element is evicted.
push_back(buf, b) ==
    IF Len(buf) = BUF_LEN THEN Append(Tail(buf), b) ELSE Append(buf, b)

-----------------------------------------------------------------------------
(* Controller (controller.rs)                                              *)

ControllerNew ==
    [high |-> TRUE, gb_sin |-> 0, gb_sout |-> 0, gb_bit |-> 0, send_buf |-> <<>>]

\* A send call's outcome: the engine afterwards, the value returned, the bus
\* operations that succeeded, in order, and the byte popped from send_buf if any.
SendOutcome(c, result, ops, popped) ==
    [ctl |-> c, result |-> result, ops |-> ops, popped |-> popped]

WriteOp(line, level) == [op |-> "write", line |-> line, level |-> level]

ReadOp(line, level) == [op |-> "read", line |-> line, level |-> level]

\* SendDrive with SCK pulled low before SOUT is driven.
SendDrive_sck_first(c, fail, popped) ==
    IF fail = "sck"
    THEN SendOutcome(c, Err, <<>>, popped)
    ELSE LET w1 == <<WriteOp("SCK", FALSE)>>
         IN IF fail = "sout"
            THEN SendOutcome(c, Err, w1, popped)
            ELSE SendOutcome([c EXCEPT !.high = ~c.high], None,
                             Append(w1, WriteOp("SOUT", Msb(c.gb_sout))), popped)

\* The `if self.high` branch: drive SOUT with the MSB of gb_sout, pull SCK low.
\* fail names the line operation that returns an error, "none" if none does.
SendDrive(c, fail, popped) ==
    IF fail = "sout"
    THEN SendOutcome(c, Err, <<>>, popped)
    ELSE LET w1 == <<WriteOp("SOUT", Msb(c.gb_sout))>>
         IN IF fail = "sck"
            THEN SendOutcome(c, Err, w1, popped)
            ELSE SendOutcome([c EXCEPT !.high = ~c.high], None,
                             Append(w1, WriteOp("SCK", FALSE)), popped)

\* SendSample with gb_bit left at 8 when the byte is complete.
SendSample_no_wrap(c, sin_high, fail, popped) ==
    IF fail = "sin"
    THEN SendOutcome(c, Err, <<>>, popped)
    ELSE LET c1 == [c EXCEPT !.gb_sin = OrBit(c.gb_sin, sin_high),
                             !.gb_bit = c.gb_bit + 1]
             c2 == IF c1.gb_bit < 8
                   THEN [c1 EXCEPT !.gb_sout = Shl1(c1.gb_sout),
                                   !.gb_sin = Shl1(c1.gb_sin)]
                   ELSE [c1 EXCEPT !.gb_sin = 0]
             result == IF c1.gb_bit < 8 THEN None ELSE Some(c1.gb_sin)
             r1 == <<ReadOp("SIN", sin_high)>>
         IN IF fail = "sck"
            THEN SendOutcome(c2, Err, r1, popped)
            ELSE SendOutcome([c2 EXCEPT !.high = ~c2.high], result,
                             Append(r1, WriteOp("SCK", TRUE)), popped)

\* The `else` branch: sample SIN, count the bit, shift or latch, raise SCK.
SendSample(c, sin_high, fail, popped) ==
    IF fail = "sin"
    THEN SendOutcome(c, Err, <<>>, popped)
    ELSE LET c1 == [c EXCEPT !.gb_sin = OrBit(c.gb_sin, sin_high),
                             !.gb_bit = c.gb_bit + 1]
             c2 == IF c1.gb_bit < 8
                   THEN [c1 EXCEPT !.gb_sout = Shl1(c1.gb_sout),
                                   !.gb_sin = Shl1(c1.gb_sin)]
                   ELSE [c1 EXCEPT !.gb_bit = 0, !.gb_sin = 0]
             result == IF c1.gb_bit < 8 THEN None ELSE Some(c1.gb_sin)
             r1 == <<ReadOp("SIN", sin_high)>>
         IN IF fail = "sck"
            THEN SendOutcome(c2, Err, r1, popped)
            ELSE SendOutcome([c2 EXCEPT !.high = ~c2.high], result,
                             Append(r1, WriteOp("SCK", TRUE)), popped)

\* Send with the idle slot taken for a drive phase: SOUT and SCK are driven
\* low and the phase flips.
Send_idle_clocks(c, sin_high, fail) ==
    IF c.gb_bit = 0 /\ c.send_buf = <<>>
    THEN SendDrive([c EXCEPT !.gb_sout = 0], fail, NoByte)
    ELSE LET popped == IF c.gb_bit = 0 THEN Head(c.send_buf) ELSE NoByte
             c1 == IF c.gb_bit = 0
                   THEN [c EXCEPT !.gb_sout = Head(c.send_buf),
                                  !.send_buf = Tail(c.send_buf)]
                   ELSE c
         IN IF c1.high
            THEN SendDrive(c1, fail, popped)
            ELSE SendSample(c1, sin_high, fail, popped)

\* Controller::send.
Send(c, sin_high, fail) ==
    IF c.gb_bit = 0 /\ c.send_buf = <<>>
    THEN SendOutcome([c EXCEPT !.gb_sout = 0], None, <<>>, NoByte)
    ELSE LET popped == IF c.gb_bit = 0 THEN Head(c.send_buf) ELSE NoByte
             c1 == IF c.gb_bit = 0
                   THEN [c EXCEPT !.gb_sout = Head(c.send_buf),
                                  !.send_buf = Tail(c.send_buf)]
                   ELSE c
         IN IF c1.high
            THEN SendDrive(c1, fail, popped)
            ELSE SendSample(c1, sin_high, fail, popped)

-----------------------------------------------------------------------------
(* Peripheral (peripheral.rs)                                              *)

PeripheralNew ==
    [gb_sin |-> 0, gb_sout |-> 0, gb_bit |-> 0, recv_buf |-> <<>>]

\* A recv call's outcome: the engine afterwards, the value returned and the
\* level written to SIN (a sequence of at most one level).
RecvOutcome(p, result, sin_writes) ==
    [per |-> p, result |-> result, sin_writes |-> sin_writes]

\* RecvLoad with the byte read from the front of the queue and left there.
RecvLoad_peek(p) ==
    IF p.gb_bit # 0 THEN p
    ELSE IF p.recv_buf = <<>>
         THEN [p EXCEPT !.gb_sin = 0]
         ELSE [p EXCEPT !.gb_sin = Head(p.recv_buf)]

\* The `if self.gb_bit == 0` block at the head of recv.
RecvLoad(p) ==
    IF p.gb_bit # 0 THEN p
    ELSE IF p.recv_buf = <<>>
         THEN [p EXCEPT !.gb_sin = 0]
         ELSE [p EXCEPT !.gb_sin = Head(p.recv_buf), !.recv_buf = Tail(p.recv_buf)]

\* SCK high: present the MSB of gb_sin on SIN.
RecvDrive(p, fail) ==
    IF fail = "sin"
    THEN RecvOutcome(p, Err, <<>>)
    ELSE RecvOutcome(p, None, <<Msb(p.gb_sin)>>)

\* RecvSample with the register shifted before the sampled bit is put in, so
\* that the 8th bit leaves the byte shifted once too often.
RecvSample_shift_first(p, sout_high, fail) ==
    IF fail = "sout"
    THEN RecvOutcome(p, Err, <<>>)
    ELSE LET p1 == [p EXCEPT !.gb_sout = OrBit(Shl1(p.gb_sout), sout_high),
                             !.gb_bit = p.gb_bit + 1]
         IN IF p1.gb_bit < 8
            THEN RecvOutcome([p1 EXCEPT !.gb_sin = Shl1(p1.gb_sin),
                                        !.gb_sout = Shl1(p1.gb_sout)], None, <<>>)
            ELSE RecvOutcome([p1 EXCEPT !.gb_bit = 0, !.gb_sout = 0],
                             Some(p1.gb_sout), <<>>)

\* SCK low: sample SOUT, count the bit, shift or latch.
RecvSample(p, sout_high, fail) ==
    IF fail = "sout"
    THEN RecvOutcome(p, Err, <<>>)
    ELSE LET p1 == [p EXCEPT !.gb_sout = OrBit(p.gb_sout, sout_high),
                             !.gb_bit = p.gb_bit + 1]
         IN IF p1.gb_bit < 8
            THEN RecvOutcome([p1 EXCEPT !.gb_sin = Shl1(p1.gb_sin),
                                        !.gb_sout = Shl1(p1.gb_sout)], None, <<>>)
            ELSE RecvOutcome([p1 EXCEPT !.gb_bit = 0, !.gb_sout = 0],
                             Some(p1.gb_sout), <<>>)

\* Peripheral::recv.
Recv(p, sck_high, sout_high, fail) ==
    LET p1 == RecvLoad(p)
    IN IF fail = "sck" THEN RecvOutcome(p1, Err, <<>>)
       ELSE IF sck_high THEN RecvDrive(p1, fail)
       ELSE RecvSample(p1, sout_high, fail)

\* Reset with the response queue left as it is.
Reset_keeps_queue(p) == [p EXCEPT !.gb_sin = 0, !.gb_sout = 0, !.gb_bit = 0]

\* Peripheral::reset.
Reset(p) == [p EXCEPT !.gb_sin = 0, !.gb_sout = 0, !.gb_bit = 0, !.recv_buf = <<>>]

-----------------------------------------------------------------------------
(* PrinterState (printer.rs)                                               *)

PRINTER_MAGIC_0 == 136

PRINTER_MAGIC_1 == 51

\* PrintCommand::from_u8: Some(variant) or None.
PrintCommand_from_u8(input) ==
    CASE input = 1 -> "Init"
      [] input = 2 -> "Print"
      [] input = 4 -> "Data"
      [] input = 15 -> "Status"
      [] OTHER -> "None"

\* PrintCompression::from_u8: Some(variant) or None.
PrintCompression_from_u8(input) ==
    CASE input = 0 -> "Uncompressed"
      [] input = 1 -> "Compressed"
      [] OTHER -> "None"

\* u16::from_le_bytes([low, high]).
u16_from_le_bytes(low, high) == high * 256 + low

\* `acc + *byte as u16` on u16 (the sum wraps at 2^16 in a release build).
U16Add(acc, byte) == (acc + byte) % 65536

\* The fold `payload.iter().fold(0_u16, |acc, byte| acc + *byte as u16)` in
\* progress: the accumulator, whether an addition has exceeded u16::MAX, and
\* the position of the iterator.
FoldStart == [acc |-> 0, overflow |-> FALSE, next |-> 1]

\* The closure applied to the next byte of the iterator.
FoldStep(f, payload) ==
    [acc |-> U16Add(f.acc, payload[f.next]),
     overflow |-> f.overflow \/ f.acc + payload[f.next] > 65535,
     next |-> f.next + 1]

\* The fold carried on up to position `last`.
RECURSIVE FoldTo(_, _, _)
FoldTo(f, payload, last) ==
    IF f.next > last THEN f ELSE FoldTo(FoldStep(f, payload), payload, last)

\* The fold carried on to the end of the payload (16 bytes at a time, which
\* keeps the evaluation shallow).
RECURSIVE FoldPayload(_, _)
FoldPayload(f, payload) ==
    IF f.next > Len(payload) THEN f
    ELSE LET last == IF f.next + 15 > Len(payload) THEN Len(payload) ELSE f.next + 15
         IN FoldPayload(FoldTo(f, payload, last), payload)

\* The value of the fold where additions wrap.
PayloadSum(payload) == FoldPayload(FoldStart, payload).acc

\* Whether an addition of the fold overflows u16.
PayloadSumOverflows(payload) == FoldPayload(FoldStart, payload).overflow

Ok(state) == [kind |-> "ok", state |-> state]

\* Err(<Box<dyn Error>>::from(format!(...))): the message and the byte formatted in it.
TransitionErr(msg, input) == [kind |-> "err", msg |-> msg, input |-> input]

Magic0 == [tag |-> "Magic0"]

\* TransitionMagic0 with the error arm that the source has commented out.
TransitionMagic0_strict(input) ==
    IF input = PRINTER_MAGIC_0 THEN Ok([tag |-> "Magic1"])
    ELSE TransitionErr("Unknown first magic byte", input)

TransitionMagic0(input) ==
    IF input = PRINTER_MAGIC_0 THEN Ok([tag |-> "Magic1"]) ELSE Ok(Magic0)

TransitionMagic1(input) ==
    IF input = PRINTER_MAGIC_1 THEN Ok([tag |-> "Cmd"]) ELSE Ok(Magic0)

TransitionCmd(input) ==
    IF PrintCommand_from_u8(input) # "None"
    THEN Ok([tag |-> "Compression", cmd |-> PrintCommand_from_u8(input)])
    ELSE TransitionErr("Unknown command", input)

TransitionCompression(st, input) ==
    IF PrintCompression_from_u8(input) # "None"
    THEN Ok([tag |-> "LenLow", cmd |-> st.cmd,
             compression |-> PrintCompression_from_u8(input)])
    ELSE TransitionErr("Unknown compression type", input)

TransitionLenLow(st, input) ==
    Ok([tag |-> "LenHigh", cmd |-> st.cmd, compression |-> st.compression,
        len_low |-> input])

\* TransitionLenHigh without the test of len > 0.
TransitionLenHigh_always_data(st, input) ==
    LET len == u16_from_le_bytes(st.len_low, input)
        payload == [i \in 1..len |-> 0]
    IN Ok([tag |-> "Data", cmd |-> st.cmd, compression |-> st.compression,
           len |-> len, index |-> len, payload |-> payload])

TransitionLenHigh(st, input) ==
    LET len == u16_from_le_bytes(st.len_low, input)
        payload == [i \in 1..len |-> 0]
    IN IF len > 0
       THEN Ok([tag |-> "Data", cmd |-> st.cmd, compression |-> st.compression,
                len |-> len, index |-> len, payload |-> payload])
       ELSE Ok([tag |-> "CheckSum0", cmd |-> st.cmd, compression |-> st.compression,
                payload |-> payload])

\* TransitionData with the bytes stored from the end of the buffer backwards.
TransitionData_backwards(st, input) ==
    LET payload == [st.payload EXCEPT ![st.index] = input]
        index == st.index - 1
    IN IF index > 0
       THEN Ok([tag |-> "Data", cmd |-> st.cmd, compression |-> st.compression,
                len |-> st.len, index |-> index, payload |-> payload])
       ELSE Ok([tag |-> "CheckSum0", cmd |-> st.cmd, compression |-> st.compression,
                payload |-> payload])

\* payload[(len - index) as usize] = input: position len - index + 1 counting from 1.
TransitionData(st, input) ==
    LET payload == [st.payload EXCEPT ![st.len - st.index + 1] = input]
        index == st.index - 1
    IN IF index > 0
       THEN Ok([tag |-> "Data", cmd |-> st.cmd, compression |-> st.compression,
                len |-> st.len, index |-> index, payload |-> payload])
       ELSE Ok([tag |-> "CheckSum0", cmd |-> st.cmd, compression |-> st.compression,
                payload |-> payload])

TransitionCheckSum0(st, input) ==
    Ok([tag |-> "CheckSum1", cmd |-> st.cmd, compression |-> st.compression,
        payload |-> st.payload, checksum0 |-> input])

TransitionCheckSum1(st, input) ==
    LET checksum == PayloadSum(st.payload)
        checksum_expected == u16_from_le_bytes(st.checksum0, input)
    IN Ok([tag |-> "Keepalive", cmd |-> st.cmd, compression |-> st.compression,
           payload |-> st.payload, checksum |-> checksum,
           checksum_expected |-> checksum_expected,
           checksum_error |-> (checksum = checksum_expected)])

TransitionKeepalive(st, input) ==
    IF input = 0
    THEN Ok([st EXCEPT !.tag = "Status"])
    ELSE TransitionErr("Unknown keepalive byte", input)

TransitionStatus(st, input) ==
    IF input = 0
    THEN Ok([st EXCEPT !.tag = "Done"])
    ELSE TransitionErr("Unknown status byte", input)

TransitionDone == [kind |-> "err", msg |-> "Printer packet is already in its final state"]

\* PrinterState::transition.
transition(st, input) ==
    CASE st.tag = "Magic0" -> TransitionMagic0(input)
      [] st.tag = "Magic1" -> TransitionMagic1(input)
      [] st.tag = "Cmd" -> TransitionCmd(input)
      [] st.tag = "Compression" -> TransitionCompression(st, input)
      [] st.tag = "LenLow" -> TransitionLenLow(st, input)
      [] st.tag = "LenHigh" -> TransitionLenHigh(st, input)
      [] st.tag = "Data" -> TransitionData(st, input)
      [] st.tag = "CheckSum0" -> TransitionCheckSum0(st, input)
      [] st.tag = "CheckSum1" -> TransitionCheckSum1(st, input)
      [] st.tag = "Keepalive" -> TransitionKeepalive(st, input)
      [] st.tag = "Status" -> TransitionStatus(st, input)
      [] st.tag = "Done" -> TransitionDone

\* The panic of `+` on overflow in a build with overflow checks (the default
\* of the dev profile).
Panic == [kind |-> "panic", msg |-> "attempt to add with overflow"]

\* PrinterState::transition as built: with overflow checks the fold of
\* CheckSum1 panics when an addition overflows, without them it wraps.  For
\* payloads whose bytes add up to less than 2^16 the two builds agree.
TransitionBuilt(st, input, overflow_checks) ==
    IF overflow_checks /\ st.tag = "CheckSum1" /\ PayloadSumOverflows(st.payload)
    THEN Panic
    ELSE transition(st, input)

PrinterAlive_Alive == 129

PrinterStatus_OK == 0

PrinterStatus_CHECKSUM_ERROR == 1

-----------------------------------------------------------------------------
(* decompress_data (printer.rs)                                            *)

\* Number of bits the model gives a usize; run bytes need 8 of them.
UsizeBits == 16

\* `!x` on a usize.
UsizeNot(x) == (2 ^ UsizeBits - 1) - x

\* `x | y` on the low w bits.
RECURSIVE BitOrW(_, _, _)
BitOrW(x, y, w) ==
    IF w = 0 THEN 0
    ELSE (IF x % 2 = 1 \/ y % 2 = 1 THEN 1 ELSE 0) + 2 * BitOrW(x \div 2, y \div 2, w - 1)

\* RepeatRunLen without the 2 added to the count held in the header.
RepeatRunLen_count_only(run_byte) ==
    UsizeNot(BitOrW(UsizeNot(run_byte), 2 ^ 7, UsizeBits))

\* `!(!run_byte | (1 << 7)) + 2`
RepeatRunLen(run_byte) == UsizeNot(BitOrW(UsizeNot(run_byte), 2 ^ 7, UsizeBits)) + 2

DecompressErr(msg) == [kind |-> "err", msg |-> msg]

\* DecompressLoop with a run that the input cuts short taken as it is.
RECURSIVE DecompressLoop_short_runs(_, _)
DecompressLoop_short_runs(rest, data) ==
    IF rest = <<>> THEN [kind |-> "ok", data |-> data]
    ELSE LET run_byte == Head(rest)
             after == Tail(rest)
             compressed_run == (run_byte \div 2 ^ 7) = 1
         IN IF compressed_run
            THEN IF after # <<>>
                 THEN DecompressLoop_short_runs(Tail(after),
                          data \o [i \in 1..RepeatRunLen(run_byte) |-> Head(after)])
                 ELSE [kind |-> "ok", data |-> data]
            ELSE LET run_len == run_byte + 1
                     taken == IF Len(after) < run_len THEN Len(after) ELSE run_len
                 IN DecompressLoop_short_runs(SubSeq(after, taken + 1, Len(after)),
                                              data \o SubSeq(after, 1, taken))

\* The `while let Some(run_byte) = byte_iter.next()` loop: rest is what the
\* iterator still holds, data is decompressed_data.
RECURSIVE DecompressLoop(_, _)
DecompressLoop(rest, data) ==
    IF rest = <<>> THEN [kind |-> "ok", data |-> data]
    ELSE LET run_byte == Head(rest)
             after == Tail(rest)
             compressed_run == (run_byte \div 2 ^ 7) = 1
         IN IF compressed_run
            THEN IF after # <<>>
                 THEN DecompressLoop(Tail(after),
                          data \o [i \in 1..RepeatRunLen(run_byte) |-> Head(after)])
                 ELSE DecompressErr("Repeat byte not found in compressed run.")
            ELSE LET run_len == run_byte + 1
                     taken == IF Len(after) < run_len THEN Len(after) ELSE run_len
                 IN IF taken = run_len
                    THEN DecompressLoop(SubSeq(after, run_len + 1, Len(after)),
                                        data \o SubSeq(after, 1, run_len))
                    ELSE DecompressErr("Not enough bytes found in uncompressed run.")

decompress_data(bytes) == DecompressLoop(bytes, <<>>)

-----------------------------------------------------------------------------
(* Initial values of the parts of the state, used by every specification   *)
(* for the parts it leaves alone.                                          *)

Levels == {TRUE, FALSE}

IdleOut == [result |-> None, ops |-> <<>>, popped |-> NoByte, called |-> FALSE]

NoTrace == [lows |-> <<>>, highs |-> 0, alt |-> TRUE, last |-> "none"]

NoPayload == <<NoByte>>

NoEvent ==
    [kind |-> "init", dir |-> "None", elapsed |-> 0, reset |-> FALSE, at_recv |-> "Magic0",
     byte |-> NoByte, pushed |-> NoByte, queued |-> 0, delivered |-> NoPayload,
     io_error |-> FALSE]

NoResponse == [log |-> <<>>, byte |-> NoByte, sin |-> <<>>]

NoCall ==
    [result |-> None, sin_writes |-> <<>>, called |-> FALSE, reset |-> FALSE,
     before |-> PeripheralNew]

InitCtlVars ==
    /\ controller = ControllerNew
    /\ c_out = IdleOut
    /\ c_tx = [byte |-> NoByte, samples |-> 8, cut |-> 8]
    /\ c_prev = [ctl |-> ControllerNew, sin |-> FALSE, errs |-> 0]

InitPerVars ==
    /\ peripheral = PeripheralNew
    /\ p_out = NoCall
    /\ p_trace = NoTrace

InitLoopVars ==
    /\ printer_state = Magic0
    /\ last_line_event_type = "None"
    /\ loop_st = "running"
    /\ console_tx = [byte |-> 0, pos |-> 0, script |-> <<>>, gaps |-> 0]
    /\ ev = NoEvent
    /\ resp = NoResponse

InitFsmVars ==
    /\ fsm_g = Ok(Magic0)
    /\ fsm_p = Ok(Magic0)
    /\ feed = [phase |-> "garbage", n |-> 0, glen |-> 0, g88 |-> FALSE]

InitLbVars ==
    /\ ticks = 0
    /\ lb = [per |-> <<>>, ctl |-> <<>>, x |-> NoByte]

NotDecoded == [kind |-> "none"]

NoRle == [runs |-> 0, e |-> <<>>, x |-> <<>>, cut |-> "none", out |-> NotDecoded,
          status |-> "running", delivered |-> NoPayload]

NoPkt == [header |-> <<>>, fed |-> <<>>, len |-> 0, fill |-> "ramp", sum |-> 0,
          overflow_checks |-> FALSE, result |-> Ok(Magic0)]

InitPureVars ==
    /\ rle = NoRle
    /\ pkt = NoPkt

-----------------------------------------------------------------------------
(* The Controller alone: a caller that queues bytes and ticks the engine,  *)
(* with any level on SIN.                                                  *)

MaxQueue == 2

MaxErrors == 1

CtlBytes == {0, 129, 165}

\* The last SCK level written by a call, or `level` if it wrote none.
RECURSIVE LastWrite(_, _, _)
LastWrite(ops, line, level) ==
    IF ops = <<>> THEN level
    ELSE LET o == ops[Len(ops)]
         IN IF o.op = "write" /\ o.line = line THEN o.level
            ELSE LastWrite(SubSeq(ops, 1, Len(ops) - 1), line, level)

Wrote(ops, line, level) ==
    \E i \in 1..Len(ops) :
        ops[i].op = "write" /\ ops[i].line = line /\ ops[i].level = level

\* History of the byte in flight: the byte last popped, the sample phases
\* completed since its pop, and `cut`, the sample phases the byte before it had
\* completed when it was popped (8 when no byte was in flight).
TxAfter(tx, o) ==
    LET sampled == IF Wrote(o.ops, "SCK", TRUE) THEN 1 ELSE 0
    IN IF o.popped # NoByte
       THEN [byte |-> o.popped, samples |-> sampled,
             cut |-> IF tx.byte = NoByte THEN 8 ELSE tx.samples]
       ELSE [tx EXCEPT !.samples = IF tx.samples + sampled > 8 THEN 8
                                   ELSE tx.samples + sampled]

InitController ==
    /\ InitCtlVars
    /\ sck = TRUE
    /\ sin = FALSE
    /\ sout = FALSE
    /\ InitPerVars
    /\ InitLoopVars
    /\ InitFsmVars
    /\ InitLbVars
    /\ InitPureVars

ControllerApply(o, sin_high) ==
    /\ c_prev' = IF o.result = Err
                 THEN [ctl |-> controller, sin |-> sin_high, errs |-> c_prev.errs + 1]
                 ELSE [ctl |-> ControllerNew, sin |-> FALSE, errs |-> c_prev.errs]
    /\ controller' = o.ctl
    /\ c_out' = [result |-> o.result, ops |-> o.ops, popped |-> o.popped,
                 called |-> TRUE]
    /\ c_tx' = TxAfter(c_tx, o)
    /\ sck' = LastWrite(o.ops, "SCK", sck)
    /\ sout' = LastWrite(o.ops, "SOUT", sout)
    /\ sin' = sin_high
    /\ UNCHANGED <<perVars, loopVars, fsmVars, lbVars, pureVars>>

\* The caller queues a byte through DerefMut.
ControllerPush ==
    \E b \in CtlBytes :
        /\ Len(controller.send_buf) < MaxQueue
        /\ controller' = [controller EXCEPT !.send_buf = push_back(@, b)]
        /\ UNCHANGED <<c_out, c_tx, c_prev, perVars, lineVars, loopVars, fsmVars, lbVars, pureVars>>

\* One call of send() in which every line operation succeeds.
ControllerSend ==
    \E sin_high \in Levels :
        ControllerApply(Send(controller, sin_high, "none"), sin_high)

\* One call of send() in which a line operation fails.
ControllerSendErr ==
    \E sin_high \in Levels, fail \in {"sout", "sck", "sin"} :
        /\ c_prev.errs < MaxErrors
        /\ Send(controller, sin_high, fail).result = Err
        /\ ControllerApply(Send(controller, sin_high, fail), sin_high)

NextController == ControllerPush \/ ControllerSend

SpecController == InitController /\ [][NextController]_vars

NextControllerIO == ControllerPush \/ ControllerSend \/ ControllerSendErr

SpecControllerIO == InitController /\ [][NextControllerIO]_vars

-----------------------------------------------------------------------------
(* Claims about the Controller                                             *)

\* C1: a byte popped from the send queue is driven on SOUT most significant
\* bit first over the next 8 drive/sample pairs, and no other byte is popped
\* before its 8th sample phase has completed: (1) a pop only happens when the
\* byte before it has had 8 sample phases; (2) every level written to SOUT is
\* the bit of the byte in flight at the position given by its completed sample
\* phases; (3) while a byte is in flight every tick acts on the bus.
C1_PoppedByteFullySent ==
    /\ c_tx.cut = 8
    /\ \A i \in 1..Len(c_out.ops) :
          (c_out.ops[i].op = "write" /\ c_out.ops[i].line = "SOUT") =>
              /\ c_tx.byte # NoByte
              /\ c_tx.samples < 8
              /\ c_out.ops[i].level = (Bit(c_tx.byte, 7 - c_tx.samples) = 1)
    /\ (c_out.called /\ c_tx.byte # NoByte /\ c_tx.samples < 8) => c_out.ops # <<>>

\* What a send call does and leaves, as far as a caller can tell.
Effect(o) == [ctl |-> o.ctl, result |-> o.result, ops |-> o.ops]

\* C9: after a tick that returned a line error, calling the tick again (the
\* line operations now succeeding, SIN at the same level) does what the failed
\* tick would have done had it succeeded: same bus operations, same result,
\* same engine afterwards.
C9_RetryReproducesTick ==
    c_out.result = Err =>
        Effect(Send(controller, c_prev.sin, "none"))
            = Effect(Send(c_prev.ctl, c_prev.sin, "none"))

\* C20: over successful ticks, (1) a tick does nothing on the bus, or writes
\* SOUT and then SCK low, or reads SIN and then writes SCK high, and it returns
\* a byte only if it writes SCK high; (2) a tick that writes SCK writes the
\* level opposite to the one SCK has, which is high before the first write:
\* the SCK writes go low, high, low, high.
C20_BusOrdering ==
    /\ [](/\ \/ c_out.ops = <<>>
             \/ \E l \in Levels :
                    c_out.ops = <<WriteOp("SOUT", l), WriteOp("SCK", FALSE)>>
             \/ \E l \in Levels :
                    c_out.ops = <<ReadOp("SIN", l), WriteOp("SCK", TRUE)>>
          /\ c_out.result.kind = "byte" => Wrote(c_out.ops, "SCK", TRUE)
          /\ c_out.result # Err)
    /\ [][Len(controller'.send_buf) <= Len(controller.send_buf) =>
             \A l \in Levels : Wrote(c_out'.ops, "SCK", l) => sck = ~l]_vars

\* C20 witness: a tick read SIN, raised SCK and returned a byte.
C20_Witness ==
    /\ c_out.result.kind = "byte"
    /\ Len(c_out.ops) = 2
    /\ c_out.ops[1].op = "read"
    /\ c_out.ops[2] = WriteOp("SCK", TRUE)

\* C22: as long as nothing has been queued on a freshly constructed
\* Controller, however many ticks have been made and whatever the level of
\* SIN, the last tick returned None and did nothing on the bus, SCK and SOUT
\* have not been written, and high, gb_sout, gb_sin, gb_bit and the queue are
\* those of Controller::new.
C22_IdleSlot ==
    (c_tx.byte = NoByte /\ controller.send_buf = <<>>) =>
        /\ c_out.result = None
        /\ c_out.ops = <<>>
        /\ sck = TRUE
        /\ sout = FALSE
        /\ controller.high = ControllerNew.high
        /\ controller.gb_sout = ControllerNew.gb_sout
        /\ controller.gb_sin = ControllerNew.gb_sin
        /\ controller.gb_bit = ControllerNew.gb_bit
        /\ controller.send_buf = ControllerNew.send_buf

\* C22 witness: a tick was made with SIN high on the Controller with nothing
\* ever queued.
C22_Witness ==
    /\ c_out.called
    /\ sin
    /\ c_tx.byte = NoByte
    /\ controller.send_buf = <<>>

-----------------------------------------------------------------------------
(* The Peripheral alone: recv() called with any levels on SCK and SOUT,    *)
(* reset() and pushes of response bytes at any time.                       *)

MaxHighCalls == 9

PerBytes == {0, 129}

InitPeripheral ==
    /\ InitPerVars
    /\ sck = FALSE
    /\ sin = FALSE
    /\ sout = FALSE
    /\ InitCtlVars
    /\ InitLoopVars
    /\ InitFsmVars
    /\ InitLbVars
    /\ InitPureVars

\* History of the recv calls since the engine was last at a byte boundary
\* (construction, reset(), or the call that followed 8 SCK-low calls): the SOUT
\* levels of the SCK-low calls, the number of SCK-high calls, and whether the
\* calls alternated SCK high, SCK low, starting high.
TraceAfter(t, sck_high, sout_high) ==
    LET t0 == IF Len(t.lows) = 8 THEN NoTrace ELSE t
        alt == t0.alt /\ (IF sck_high THEN t0.last # "high" ELSE t0.last = "high")
    IN IF sck_high
       THEN [t0 EXCEPT !.highs = @ + 1, !.alt = alt, !.last = "high"]
       ELSE [t0 EXCEPT !.lows = Append(@, sout_high), !.alt = alt, !.last = "low"]

\* One call of recv() in which every line operation succeeds.
PeripheralRecv ==
    \E sck_high \in Levels, sout_high \in Levels :
        LET o == Recv(peripheral, sck_high, sout_high, "none")
            t == TraceAfter(p_trace, sck_high, sout_high)
        IN /\ t.highs <= MaxHighCalls
           /\ peripheral' = o.per
           /\ p_out' = [NoCall EXCEPT !.result = o.result, !.sin_writes = o.sin_writes,
                                      !.called = TRUE]
           /\ p_trace' = t
           /\ sck' = sck_high
           /\ sout' = sout_high
           /\ sin' = IF o.sin_writes = <<>> THEN sin ELSE o.sin_writes[1]
           /\ UNCHANGED <<ctlVars, loopVars, fsmVars, lbVars, pureVars>>

PeripheralReset ==
    /\ peripheral' = Reset(peripheral)
    /\ p_out' = [NoCall EXCEPT !.reset = TRUE, !.before = peripheral]
    /\ p_trace' = NoTrace
    /\ UNCHANGED <<ctlVars, lineVars, loopVars, fsmVars, lbVars, pureVars>>

\* The owner queues a response byte through DerefMut.
PeripheralPush ==
    \E b \in PerBytes :
        /\ Len(peripheral.recv_buf) < MaxQueue
        /\ peripheral' = [peripheral EXCEPT !.recv_buf = push_back(@, b)]
        /\ p_out' = [p_out EXCEPT !.reset = FALSE, !.before = PeripheralNew]
        /\ UNCHANGED <<p_trace, ctlVars, lineVars, loopVars, fsmVars, lbVars, pureVars>>

NextPeripheral == PeripheralRecv \/ PeripheralReset \/ PeripheralPush

SpecPeripheral == InitPeripheral /\ [][NextPeripheral]_vars

\* C6: from a byte boundary, a recv call returns a byte exactly when it is the
\* 8th SCK-low call, and the byte is b7*128 + ... + b0 for the SOUT levels
\* b7..b0 of the 8 SCK-low calls; every other call returns None.
C6_RecvAssemblesByte ==
    p_out.called =>
        /\ (p_out.result.kind = "byte") <=> (p_trace.last = "low" /\ Len(p_trace.lows) = 8)
        /\ p_out.result.kind = "byte" => p_out.result.byte = BitsValue(p_trace.lows)
        /\ p_out.result.kind # "byte" => p_out.result = None

\* C6 witness: 8 SCK high/low pairs from a byte boundary, SOUT carrying 0xA5,
\* and the 16th call returning it.
C6_Witness ==
    /\ p_out.called
    /\ p_trace.alt
    /\ p_trace.highs = 8
    /\ p_trace.lows = ByteLevels(165)
    /\ p_out.result = Some(165)

\* C14: right after reset(), whatever the engine was (any gb_bit, any register
\* contents, any response queue), gb_sin, gb_sout, gb_bit and the response
\* queue are those of a freshly constructed engine, and a recv() call returns
\* and does, for each level of SCK and SOUT, what it does on a fresh engine.
C14_ResetEqualsFresh ==
    p_out.reset =>
        /\ peripheral.gb_sin = PeripheralNew.gb_sin
        /\ peripheral.gb_sout = PeripheralNew.gb_sout
        /\ peripheral.gb_bit = PeripheralNew.gb_bit
        /\ peripheral.recv_buf = PeripheralNew.recv_buf
        /\ \A sck_high \in Levels, sout_high \in Levels :
              Recv(peripheral, sck_high, sout_high, "none")
                  = Recv(PeripheralNew, sck_high, sout_high, "none")

\* C14 witness: reset() was called in the middle of a byte, with bits in both
\* registers and a response byte queued.
C14_Witness ==
    /\ p_out.reset
    /\ p_out.before.gb_bit = 5
    /\ p_out.before.gb_sin # 0
    /\ p_out.before.gb_sout # 0
    /\ p_out.before.recv_buf # <<>>

-----------------------------------------------------------------------------
(* Loopback: the Controller's SOUT and SCK wired to the Peripheral's SOUT  *)
(* and SCK inputs, the Peripheral's SIN wired to the Controller's SIN      *)
(* input; recv() is called after each SCK change the Controller makes.     *)

LoopbackTicks == 256

LoopbackBytes == {165, 0, 255}

InitLoopback ==
    \E x \in LoopbackBytes :
        /\ controller = [ControllerNew EXCEPT !.send_buf = <<x>>]
        /\ c_out = IdleOut
        /\ c_tx = [byte |-> NoByte, samples |-> 8, cut |-> 8]
        /\ c_prev = [ctl |-> ControllerNew, sin |-> FALSE, errs |-> 0]
        /\ InitPerVars
        /\ sck = TRUE
        /\ sin = FALSE
        /\ sout = FALSE
        /\ InitLoopVars
        /\ InitFsmVars
        /\ ticks = 0
        /\ lb = [per |-> <<>>, ctl |-> <<>>, x |-> x]
        /\ InitPureVars

Returned(log, result) ==
    IF result.kind = "byte" THEN Append(log, result.byte) ELSE log

\* One Controller tick, followed by recv() when the tick changed SCK.
LoopbackTick ==
    /\ ticks < LoopbackTicks
    /\ LET o == Send(controller, sin, "none")
           sck1 == LastWrite(o.ops, "SCK", sck)
           sout1 == LastWrite(o.ops, "SOUT", sout)
           called == sck1 # sck
           r == IF called THEN Recv(peripheral, sck1, sout1, "none")
                ELSE RecvOutcome(peripheral, None, <<>>)
       IN /\ controller' = o.ctl
          /\ peripheral' = r.per
          /\ sck' = sck1
          /\ sout' = sout1
          /\ sin' = IF r.sin_writes = <<>> THEN sin ELSE r.sin_writes[1]
          /\ lb' = [lb EXCEPT !.ctl = Returned(@, o.result),
                              !.per = Returned(@, r.result)]
    /\ ticks' = ticks + 1
    /\ UNCHANGED <<c_out, c_tx, c_prev, p_out, p_trace, loopVars, fsmVars, pureVars>>

NextLoopback == LoopbackTick

SpecLoopback == InitLoopback /\ [][NextLoopback]_vars

\* C8: with the send queue holding one byte x and the response queue empty,
\* 256 Controller ticks make recv() return Some(x) exactly once and the
\* Controller's tick return Some(0x00) exactly once.
C8_LoopbackDeliversByte ==
    ticks = LoopbackTicks => (lb.per = <<lb.x>> /\ lb.ctl = <<0>>)

-----------------------------------------------------------------------------
(* The printer FSM alone: transition folded over a garbage prefix G        *)
(* followed by a packet P (fsm_g), and over P alone (fsm_p).  P begins     *)
(* 0x88 0x33 cmd.                                                          *)

MaxLen == 2

MaxGarbage == 3

FsmBytes == {0, 1, 2, 51, 136}

\* The declared payload length stays within MaxLen.
LenWithin(r, input) ==
    (r.kind = "ok" /\ r.state.tag = "LenHigh") =>
        u16_from_le_bytes(r.state.len_low, input) <= MaxLen

\* One step of the fold: `state = state.transition(byte)?`.
Step(r, input) == IF r.kind = "ok" THEN transition(r.state, input) ELSE r

InitFsm ==
    /\ InitFsmVars
    /\ sck = FALSE
    /\ sin = FALSE
    /\ sout = FALSE
    /\ InitCtlVars
    /\ InitPerVars
    /\ InitLoopVars
    /\ InitLbVars
    /\ InitPureVars

\* A byte of the garbage prefix: only fsm_g sees it.
FeedGarbage ==
    \E b \in FsmBytes :
        /\ feed.phase = "garbage"
        /\ feed.glen < MaxGarbage
        /\ LenWithin(fsm_g, b)
        /\ fsm_g' = Step(fsm_g, b)
        /\ feed' = [feed EXCEPT !.glen = @ + 1, !.g88 = @ \/ b = PRINTER_MAGIC_0]
        /\ UNCHANGED <<fsm_p, ctlVars, perVars, lineVars, loopVars, lbVars, pureVars>>

\* A byte of the packet: both folds see it.  feed.n counts the packet bytes
\* fed, up to 3.
FeedPacket ==
    \E b \in FsmBytes :
        /\ feed.n = 0 => b = PRINTER_MAGIC_0
        /\ feed.n = 1 => b = PRINTER_MAGIC_1
        /\ feed.n = 2 => PrintCommand_from_u8(b) # "None"
        /\ LenWithin(fsm_g, b)
        /\ LenWithin(fsm_p, b)
        /\ fsm_g' = Step(fsm_g, b)
        /\ fsm_p' = Step(fsm_p, b)
        /\ feed' = [feed EXCEPT !.phase = "packet",
                                !.n = IF @ < 3 THEN @ + 1 ELSE @]
        /\ UNCHANGED <<ctlVars, perVars, lineVars, loopVars, lbVars, pureVars>>

NextFsm == FeedGarbage \/ FeedPacket

SpecFsm == InitFsm /\ [][NextFsm]_vars

\* C7 as claimed: whatever the garbage prefix, once the packet's 0x88 0x33 cmd
\* and any further bytes have been fed, the fold over G followed by P equals
\* the fold over P alone (same state, same carried fields, same error).
C7_ResyncAnyGarbage ==
    feed.n = 3 => fsm_g = fsm_p

\* C7 amended: the same, for every garbage prefix that holds no 0x88 byte.
C7_ResyncGarbageWithoutMagic ==
    (feed.n = 3 /\ ~feed.g88) => fsm_g = fsm_p

\* C7 witness: a garbage prefix of at least two bytes without 0x88, then a
\* packet parsed to its end.
C7_Witness ==
    /\ feed.n = 3
    /\ ~feed.g88
    /\ feed.glen >= 2
    /\ fsm_g.kind = "ok"
    /\ fsm_g.state.tag = "Done"
    /\ fsm_p = fsm_g

-----------------------------------------------------------------------------
(* main_loop (printer.rs): one action per iteration of the loop.           *)
(*                                                                         *)
(* Environment: the console presents bit 7 - pos of the byte it is sending *)
(* on SOUT before each falling edge; any time may pass before any event,   *)
(* inside a byte as well as between two bytes.  The edge                   *)
(* stream may repeat an event and may yield an error event.  The console   *)
(* sends the bytes of console_tx.script and 0x00 bytes after them.         *)

\* The bytes the console may send after the one it is sending.
NextConsoleBytes ==
    IF console_tx.script # <<>> THEN {Head(console_tx.script)} ELSE {0}

\* Durations since the previous event, in milliseconds: less than a second,
\* between one and two seconds, two seconds.
ElapsedMs == {0, 1500, 2000}

\* Duration::as_secs: whole seconds.
as_secs(ms) == ms \div 1000

\* `if elapsed.as_secs() > 1 { peripheral.reset(); }`
IdleElapsed(ms) == as_secs(ms) > 1

IdleCheck(p, ms) == IF IdleElapsed(ms) THEN Reset(p) ELSE p

\* The idle gaps (pauses that make the loop reset the engine) of one run.
MaxGaps == 1

\* `now.elapsed()`: the time since the previous event, whatever the event;
\* console_tx.gaps counts the idle gaps so far.
Elapsed ==
    IF console_tx.gaps < MaxGaps THEN ElapsedMs
    ELSE {ms \in ElapsedMs : ~IdleElapsed(ms)}

Gaps(ms) == IF IdleElapsed(ms) THEN console_tx.gaps + 1 ELSE console_tx.gaps

\* Debounced with no event taken for a duplicate.
Debounced_never(last, event_type) == FALSE

\* `Some(llet) if llet == &line_event_type => continue`
Debounced(last, event_type) == last = event_type

\* What the body of `if let Some(byte) = peripheral.recv()?` leaves: the
\* engine, the FSM, whether the loop goes on, the response byte pushed and the
\* payload delivered.
Handled(p, st, status, pushed, delivered) ==
    [per |-> p, state |-> st, status |-> status, pushed |-> pushed,
     delivered |-> delivered]

\* The status byte pushed on entering Status.
StatusBits(st) ==
    IF st.checksum_error THEN PrinterStatus_CHECKSUM_ERROR ELSE PrinterStatus_OK

\* HandleState with the alive byte pushed once more on entering Status.
HandleState_alive_twice(p, st) ==
    CASE st.tag = "Keepalive" ->
           Handled([p EXCEPT !.recv_buf = push_back(@, PrinterAlive_Alive)], st,
                   "running", PrinterAlive_Alive, NoPayload)
      [] st.tag = "Status" ->
           Handled([p EXCEPT !.recv_buf =
                        push_back(push_back(@, PrinterAlive_Alive), StatusBits(st))],
                   st, "running", StatusBits(st), NoPayload)
      [] st.tag = "Done" ->
           IF st.compression = "Compressed"
           THEN LET d == decompress_data(st.payload)
                IN IF d.kind = "ok"
                   THEN Handled(p, Magic0, "running", NoByte, d.data)
                   ELSE Handled(p, Magic0, "failed", NoByte, NoPayload)
           ELSE Handled(p, Magic0, "running", NoByte, st.payload)
      [] OTHER -> Handled(p, st, "running", NoByte, NoPayload)

\* HandleState with the payload delivered as received, never decompressed.
HandleState_raw_payload(p, st) ==
    CASE st.tag = "Keepalive" ->
           Handled([p EXCEPT !.recv_buf = push_back(@, PrinterAlive_Alive)], st,
                   "running", PrinterAlive_Alive, NoPayload)
      [] st.tag = "Status" ->
           Handled([p EXCEPT !.recv_buf = push_back(@, StatusBits(st))], st,
                   "running", StatusBits(st), NoPayload)
      [] st.tag = "Done" -> Handled(p, Magic0, "running", NoByte, st.payload)
      [] OTHER -> Handled(p, st, "running", NoByte, NoPayload)

\* The `match printer_state` after a successful transition to st.
HandleState(p, st) ==
    CASE st.tag = "Keepalive" ->
           Handled([p EXCEPT !.recv_buf = push_back(@, PrinterAlive_Alive)], st,
                   "running", PrinterAlive_Alive, NoPayload)
      [] st.tag = "Status" ->
           Handled([p EXCEPT !.recv_buf = push_back(@, StatusBits(st))], st,
                   "running", StatusBits(st), NoPayload)
      [] st.tag = "Done" ->
           IF st.compression = "Compressed"
           THEN LET d == decompress_data(st.payload)
                IN IF d.kind = "ok"
                   THEN Handled(p, Magic0, "running", NoByte, d.data)
                   ELSE Handled(p, Magic0, "failed", NoByte, NoPayload)
           ELSE Handled(p, Magic0, "running", NoByte, st.payload)
      [] OTHER -> Handled(p, st, "running", NoByte, NoPayload)

\* HandleRecv with the error of transition dropped instead of returned.
HandleRecv_lenient(o, st) ==
    IF o.result = Err THEN Handled(o.per, st, "failed", NoByte, NoPayload)
    ELSE IF o.result = None THEN Handled(o.per, st, "running", NoByte, NoPayload)
    ELSE LET t == transition(st, o.result.byte)
         IN IF t.kind = "ok" THEN HandleState(o.per, t.state)
            ELSE Handled(o.per, st, "running", NoByte, NoPayload)

\* What follows `peripheral.recv()`, given its outcome o and the FSM st.
HandleRecv(o, st) ==
    IF o.result = Err THEN Handled(o.per, st, "failed", NoByte, NoPayload)
    ELSE IF o.result = None THEN Handled(o.per, st, "running", NoByte, NoPayload)
    ELSE LET t == transition(st, o.result.byte)
         IN IF t.kind = "ok" THEN HandleState(o.per, t.state)
            ELSE Handled(o.per, st, "failed", NoByte, NoPayload)

\* History: the response bytes pushed since the FSM last took a first magic
\* byte, the byte last pushed, and the levels written to SIN since that push
\* (the first 8 of them).
RespAfter(r, was_reset, sin_writes, h) ==
    LET r0 == IF was_reset THEN [r EXCEPT !.byte = NoByte, !.sin = <<>>] ELSE r
        r1 == IF r0.byte # NoByte /\ Len(r0.sin) < 8
              THEN [r0 EXCEPT !.sin = @ \o sin_writes] ELSE r0
        r2 == IF h.state.tag = "Magic1" THEN [r1 EXCEPT !.log = <<>>] ELSE r1
    IN IF h.pushed # NoByte
       THEN [log |-> Append(r2.log, h.pushed), byte |-> h.pushed, sin |-> <<>>]
       ELSE r2

\* The bytes of a packet: magic, command, compression, length (little
\* endian), payload, checksum (little endian), keepalive, status.
Packet(cmd, compression, payload, checksum) ==
    <<PRINTER_MAGIC_0, PRINTER_MAGIC_1, cmd, compression,
      Len(payload) % 256, Len(payload) \div 256>>
    \o payload
    \o <<checksum % 256, checksum \div 256, 0, 0>>

\* Uncompressed payloads, a payload of one repeat run (0x80: 2 times 0xAB), one
\* of one literal run (0x00: 1 byte), and one whose literal run (0x01: 2 bytes)
\* is cut short.
Packets ==
    { Packet(1, 0, <<>>, 0),
      Packet(4, 0, <<7, 9>>, 16),
      Packet(4, 1, <<128, 171>>, 299),
      Packet(4, 1, <<0, 171>>, 0),
      Packet(4, 1, <<1, 171>>, 172) }

\* What the console sends in a run of main_loop: one packet (with an empty
\* payload, with a payload of one byte, with a compressed payload, with a
\* carried checksum that differs from the computed one), a sequence that
\* stops being a packet at its command, compression, keepalive or status
\* byte, or a packet after bytes that are not one.
Scripts ==
    { Packet(1, 0, <<>>, 0),
      Packet(4, 0, <<7>>, 7),
      Packet(4, 1, <<128, 171>>, 299),
      Packet(1, 0, <<>>, 1),
      <<136, 51, 3>>,
      <<136, 51, 1, 2>>,
      <<136, 51, 1, 0, 0, 0, 0, 0, 1>>,
      <<136, 51, 1, 0, 0, 0, 0, 0, 0, 1>>,
      <<51, 136>> \o Packet(1, 0, <<>>, 0) }

InitLoop ==
    \E script \in Scripts :
        /\ InitPerVars
        /\ sck = FALSE
        /\ sin = FALSE
        /\ sout = FALSE
        /\ printer_state = Magic0
        /\ last_line_event_type = "None"
        /\ loop_st = "running"
        /\ console_tx = [byte |-> Head(script), pos |-> 0,
                         script |-> Tail(script), gaps |-> 0]
        /\ ev = NoEvent
        /\ resp = NoResponse
        /\ InitCtlVars
        /\ InitFsmVars
        /\ InitLbVars
        /\ InitPureVars

\* The stream yields an edge whose direction differs from the last one kept:
\* idle check, mirror update, recv(), transition, response, delivery.  fail
\* names the line operation of recv() that returns an error, "none" if none.
LoopIteration(fail) ==
    \E event_type \in {"FallingEdge", "RisingEdge"}, elapsed \in Elapsed :
        LET p1 == IdleCheck(peripheral, elapsed)
            sck_high == event_type = "RisingEdge"
            sout_high == IF sck_high THEN sout
                         ELSE Bit(console_tx.byte, 7 - console_tx.pos) = 1
            o == Recv(p1, sck_high, sout_high, fail)
            h == HandleRecv(o, printer_state)
            wrap == ~sck_high /\ console_tx.pos = 7
        IN /\ loop_st = "running"
           /\ ~Debounced(last_line_event_type, event_type)
           /\ fail # "none" => o.result = Err
           /\ o.result.kind = "byte" => LenWithin(Ok(printer_state), o.result.byte)
           /\ last_line_event_type' = event_type
           /\ sck' = sck_high
           /\ sout' = sout_high
           /\ sin' = IF o.sin_writes = <<>> THEN sin ELSE o.sin_writes[1]
           /\ peripheral' = h.per
           /\ printer_state' = h.state
           /\ loop_st' = h.status
           /\ \E next \in IF wrap THEN NextConsoleBytes ELSE {console_tx.byte} :
                 console_tx' =
                     IF sck_high THEN [console_tx EXCEPT !.gaps = Gaps(elapsed)]
                     ELSE [console_tx EXCEPT
                              !.gaps = Gaps(elapsed),
                              !.byte = next,
                              !.pos = (console_tx.pos + 1) % 8,
                              !.script = IF wrap /\ @ # <<>> THEN Tail(@) ELSE @]
           /\ ev' = [kind |-> "edge", dir |-> event_type, elapsed |-> elapsed,
                     reset |-> IdleElapsed(elapsed),
                     at_recv |-> printer_state.tag,
                     byte |-> IF o.result.kind = "byte" THEN o.result.byte ELSE NoByte,
                     pushed |-> h.pushed,
                     queued |-> Len(h.per.recv_buf) - Len(o.per.recv_buf),
                     delivered |-> h.delivered,
                     io_error |-> o.result = Err]
           /\ resp' = RespAfter(resp, IdleElapsed(elapsed), o.sin_writes, h)
           /\ UNCHANGED <<p_out, p_trace, ctlVars, fsmVars, lbVars, pureVars>>

\* An edge is processed and every line operation succeeds.
LoopEdge == LoopIteration("none")

\* An edge is processed and reading SOUT or writing SIN fails.
LoopEdgeErr == \E fail \in {"sin", "sout"} : LoopIteration(fail)

\* The stream yields an edge of the same direction as the last one kept:
\* idle check, then `continue`.
LoopDuplicate ==
    \E event_type \in {"FallingEdge", "RisingEdge"}, elapsed \in Elapsed :
        /\ loop_st = "running"
        /\ Debounced(last_line_event_type, event_type)
        /\ peripheral' = IdleCheck(peripheral, elapsed)
        /\ ev' = [NoEvent EXCEPT !.kind = "duplicate", !.dir = event_type,
                                 !.elapsed = elapsed,
                                 !.reset = IdleElapsed(elapsed),
                                 !.at_recv = printer_state.tag]
        /\ resp' = IF IdleElapsed(elapsed)
                   THEN [resp EXCEPT !.byte = NoByte, !.sin = <<>>] ELSE resp
        /\ console_tx' = [console_tx EXCEPT !.gaps = Gaps(elapsed)]
        /\ UNCHANGED <<printer_state, last_line_event_type, loop_st,
                       p_out, p_trace, lineVars, ctlVars, fsmVars, lbVars, pureVars>>

\* The stream yields Some(Err(_)): idle check, then `if let Ok(line_event)`
\* does not match and the loop goes to its next iteration.
LoopEventErr ==
    \E elapsed \in Elapsed :
        /\ loop_st = "running"
        /\ peripheral' = IdleCheck(peripheral, elapsed)
        /\ ev' = [NoEvent EXCEPT !.kind = "error event", !.elapsed = elapsed,
                                 !.reset = IdleElapsed(elapsed),
                                 !.at_recv = printer_state.tag,
                                 !.io_error = TRUE]
        /\ resp' = IF IdleElapsed(elapsed)
                   THEN [resp EXCEPT !.byte = NoByte, !.sin = <<>>] ELSE resp
        /\ console_tx' = [console_tx EXCEPT !.gaps = Gaps(elapsed)]
        /\ UNCHANGED <<printer_state, last_line_event_type, loop_st,
                       p_out, p_trace, lineVars, ctlVars, fsmVars, lbVars, pureVars>>

\* The stream yields None: `break`, and main_loop returns Ok(()).
LoopStreamEnd ==
    /\ loop_st = "running"
    /\ loop_st' = "ended"
    /\ ev' = [NoEvent EXCEPT !.kind = "end", !.at_recv = printer_state.tag]
    /\ UNCHANGED <<printer_state, last_line_event_type, console_tx, resp,
                   perVars, lineVars, ctlVars, fsmVars, lbVars, pureVars>>

NextLoop == LoopEdge \/ LoopDuplicate \/ LoopStreamEnd

SpecLoop == InitLoop /\ [][NextLoop]_vars

NextLoopIO == LoopEdge \/ LoopDuplicate \/ LoopStreamEnd \/ LoopEdgeErr \/ LoopEventErr

SpecLoopIO == InitLoop /\ [][NextLoopIO]_vars

-----------------------------------------------------------------------------
(* main_loop fed two packets back to back: the console sends the bytes of  *)
(* one packet, then those of another, then 0x00 bytes.                     *)

\* The packets sent second: an uncompressed and a compressed one.
SecondPackets == {Packet(4, 0, <<7, 9>>, 16), Packet(4, 1, <<128, 171>>, 299)}

InitLoopPackets ==
    \E first \in Packets, second \in SecondPackets :
        /\ InitPerVars
        /\ sck = FALSE
        /\ sin = FALSE
        /\ sout = FALSE
        /\ printer_state = Magic0
        /\ last_line_event_type = "None"
        /\ loop_st = "running"
        /\ console_tx = [byte |-> Head(first), pos |-> 0,
                         script |-> Tail(first) \o second, gaps |-> 0]
        /\ ev = NoEvent
        /\ resp = NoResponse
        /\ InitCtlVars
        /\ InitFsmVars
        /\ InitLbVars
        /\ InitPureVars

SpecLoopPackets == InitLoopPackets /\ [][NextLoop]_vars

-----------------------------------------------------------------------------
(* Claims about main_loop                                                  *)

\* C2: a response byte pushed when a received byte completes is driven on SIN
\* most significant bit first, one bit per SCK-high recv() call of the 8-bit
\* slot that follows: the levels written to SIN since the push are the leading
\* bits of the pushed byte (for 0x81: high, then six times low, then high).
C2_ResponseDrivenOnSin ==
    resp.byte # NoByte =>
        \A i \in 1..Len(resp.sin) : resp.sin[i] = ByteLevels(resp.byte)[i]

\* C3: on entering Status the loop has pushed 0x81 and then a status byte that
\* is 0x01 if the computed checksum differs from the carried one, 0x00 if they
\* are equal.
C3_StatusByteReportsMismatch ==
    printer_state.tag = "Status" =>
        resp.log = <<129, IF printer_state.checksum # printer_state.checksum_expected
                          THEN 1 ELSE 0>>

\* C4: when an event arrives after an idle gap that makes the loop reset the
\* engine, the FSM is in Magic0 before the event is processed.
C4_IdleResetRearmsFsm ==
    ev.reset => ev.at_recv = "Magic0"

\* C5: reset() is called for an event exactly when more than 1 second has
\* elapsed since the previous event.
C5_ResetIffOverOneSecond ==
    ev.kind \in {"edge", "duplicate", "error event"} =>
        (ev.reset <=> ev.elapsed > 1000)

\* C10: every line I/O error the loop meets (an error event of the SCK stream,
\* a failed read of SOUT, a failed write of SIN) terminates the loop with the
\* error.
C10_LineErrorTerminatesLoop ==
    ev.io_error => loop_st = "failed"

\* The bytes that are protocol errors in the FSM position `tag`.
ProtocolErrorByte(tag, b) ==
    \/ tag = "Cmd" /\ b \notin {1, 2, 4, 15}
    \/ tag = "Compression" /\ b \notin {0, 1}
    \/ tag = "Keepalive" /\ b # 0
    \/ tag = "Status" /\ b # 0

\* C11: a command byte outside {0x01,0x02,0x04,0x0F} in Cmd, a compression
\* byte outside {0x00,0x01} in Compression, a non-zero byte in Keepalive and a
\* non-zero byte in Status each make transition return an error; the loop that
\* received such a byte has terminated with the error, has pushed no response
\* byte and has delivered no payload.
C11_ProtocolErrorsFatal ==
    /\ printer_state.tag \in {"Cmd", "Compression", "Keepalive", "Status"} =>
          \A b \in 0..255 :
              ProtocolErrorByte(printer_state.tag, b) =>
                  transition(printer_state, b).kind = "err"
    /\ (ev.kind = "edge" /\ ev.byte # NoByte /\ ProtocolErrorByte(ev.at_recv, ev.byte)) =>
          /\ loop_st = "failed"
          /\ ev.pushed = NoByte
          /\ ev.queued = 0
          /\ ev.delivered = NoPayload

\* C11 witness: the loop has terminated on a non-zero byte received in Status.
C11_Witness ==
    /\ ev.kind = "edge"
    /\ ev.at_recv = "Status"
    /\ ev.byte = 1
    /\ loop_st = "failed"

\* The last iteration received a byte that took the FSM into `tag`.
Entered(tag) ==
    ev.kind = "edge" /\ ev.byte # NoByte /\ loop_st = "running" /\ printer_state.tag = tag

\* C12: an iteration of the loop adds at most one byte to the response queue;
\* it adds one exactly when the byte it received took the FSM into Keepalive
\* (the byte added is 0x81) or into Status (the byte added is the status byte);
\* and when a packet has been parsed to its end, the bytes pushed since its
\* first magic byte are 0x81 and then the status byte, and no other.
C12_TwoResponsesPerPacket ==
    /\ ev.queued \in {0, 1}
    /\ ev.queued = 1 <=> ev.pushed # NoByte
    /\ ev.pushed # NoByte <=> (Entered("Keepalive") \/ Entered("Status"))
    /\ Entered("Keepalive") => ev.pushed = PrinterAlive_Alive
    /\ Entered("Status") => ev.pushed = StatusBits(printer_state)
    /\ (ev.kind = "edge" /\ ev.at_recv = "Status" /\ ev.byte = 0) =>
          /\ Len(resp.log) = 2
          /\ resp.log[1] = PrinterAlive_Alive
          /\ resp.log[2] \in {PrinterStatus_OK, PrinterStatus_CHECKSUM_ERROR}

\* C12 witness: a packet with a payload byte has been parsed to its end and
\* delivered, two response bytes having been pushed.
C12_Witness ==
    /\ ev.kind = "edge"
    /\ ev.at_recv = "Status"
    /\ ev.byte = 0
    /\ Len(ev.delivered) = 1
    /\ ev.delivered # NoPayload
    /\ Len(resp.log) = 2

\* What the loop prints for the payload of a packet: decompress_data's output
\* for a compressed one, the payload itself otherwise.
Decoded(st) ==
    IF st.compression = "Compressed" THEN decompress_data(st.payload)
    ELSE [kind |-> "ok", data |-> st.payload]

\* C13: the FSM is never left in Done and a payload is delivered only by the
\* iteration that received the last byte of a packet; that iteration re-arms
\* the FSM to Magic0 and, when the payload has a decoding (every uncompressed
\* payload, every compressed one that decompress_data accepts), delivers that
\* decoding and goes on; so the loop never fails with the FSM's "already in
\* its final state" error and parses the packet that follows.
C13_DoneDeliversAndRearms ==
    /\ [](/\ printer_state.tag # "Done"
          /\ ev.delivered # NoPayload =>
                (ev.kind = "edge" /\ ev.at_recv = "Status" /\ ev.byte = 0))
    /\ [][(printer_state.tag = "Status" /\ ev'.kind = "edge" /\ ev'.byte = 0) =>
             /\ printer_state' = Magic0
             /\ Decoded(printer_state).kind = "ok" =>
                   /\ ev'.delivered = Decoded(printer_state).data
                   /\ loop_st' = "running"]_vars

\* C13 witness: the second of two packets, one with a compressed payload,
\* has been delivered decompressed right after the first.
C13_Witness ==
    /\ console_tx.script = <<>>
    /\ ev.kind = "edge"
    /\ ev.at_recv = "Status"
    /\ ev.delivered = <<171, 171>>
    /\ printer_state = Magic0
    /\ loop_st = "running"

-----------------------------------------------------------------------------
(* decompress_data alone: an encoding is built run by run, perhaps ending  *)
(* in a run that is cut short, and then decoded; the result is also given  *)
(* to the loop's handling of a Done state that carries the encoding as a   *)
(* compressed payload.                                                     *)

MaxRuns == 3

\* Lengths of repeat runs (2..129 can be encoded).
RepeatCounts == {2, 4, 129}

\* Lengths of literal runs (1..128 can be encoded).
LiteralLens == {1, 2, 128}

RleValues == {171, 130}

LiteralSeeds == {17, 128}

\* The n bytes of a literal run: seed, 2 * seed, ... (mod 256).
Literal(n, seed) == [i \in 1..n |-> (seed * i) % 256]

\* The header of a repeat run of n bytes: bit 0x80 and n - 2.
RepeatHeader(n) == 128 + (n - 2)

\* The header of a literal run of n bytes: n - 1.
LiteralHeader(n) == n - 1

\* The Done state of a packet with a compressed payload.
DoneCompressed(payload) ==
    [tag |-> "Done", cmd |-> "Data", compression |-> "Compressed", payload |-> payload,
     checksum |-> PayloadSum(payload), checksum_expected |-> PayloadSum(payload),
     checksum_error |-> TRUE]

InitDecompress ==
    /\ rle = NoRle
    /\ pkt = NoPkt
    /\ sck = FALSE
    /\ sin = FALSE
    /\ sout = FALSE
    /\ InitCtlVars
    /\ InitPerVars
    /\ InitLoopVars
    /\ InitFsmVars
    /\ InitLbVars

RleBuilding == rle.out = NotDecoded /\ rle.cut = "none" /\ rle.runs < MaxRuns

RleFrame == UNCHANGED <<pkt, ctlVars, perVars, lineVars, loopVars, fsmVars, lbVars>>

\* The encoding gets a repeat run: header, then the byte repeated.
RleRepeatRun ==
    \E n \in RepeatCounts, v \in RleValues :
        /\ RleBuilding
        /\ rle' = [rle EXCEPT !.runs = @ + 1,
                              !.e = @ \o <<RepeatHeader(n), v>>,
                              !.x = @ \o [i \in 1..n |-> v]]
        /\ RleFrame

\* The encoding gets a literal run: header, then the bytes.
RleLiteralRun ==
    \E n \in LiteralLens, seed \in LiteralSeeds :
        /\ RleBuilding
        /\ rle' = [rle EXCEPT !.runs = @ + 1,
                              !.e = @ \o <<LiteralHeader(n)>> \o Literal(n, seed),
                              !.x = @ \o Literal(n, seed)]
        /\ RleFrame

\* The encoding ends with the header of a repeat run and nothing after it.
RleCutRepeat ==
    \E n \in RepeatCounts :
        /\ RleBuilding
        /\ rle' = [rle EXCEPT !.runs = @ + 1,
                              !.e = @ \o <<RepeatHeader(n)>>,
                              !.cut = "repeat"]
        /\ RleFrame

\* The encoding ends with the header of a literal run of n bytes and fewer
\* than n bytes after it.
RleCutLiteral ==
    \E n \in LiteralLens, seed \in LiteralSeeds, k \in {0, 1, 127} :
        /\ RleBuilding
        /\ k < n
        /\ rle' = [rle EXCEPT !.runs = @ + 1,
                              !.e = @ \o <<LiteralHeader(n)>> \o Literal(k, seed),
                              !.cut = "literal"]
        /\ RleFrame

\* decompress_data(&payload)? as the loop calls it on entering Done.
RleDecode ==
    /\ rle.out = NotDecoded
    /\ LET h == HandleState(PeripheralNew, DoneCompressed(rle.e))
       IN rle' = [rle EXCEPT !.out = decompress_data(rle.e),
                             !.status = h.status,
                             !.delivered = h.delivered]
    /\ RleFrame

NextDecompress ==
    RleRepeatRun \/ RleLiteralRun \/ RleCutRepeat \/ RleCutLiteral \/ RleDecode

SpecDecompress == InitDecompress /\ [][NextDecompress]_vars

\* C15: whatever sequence X of bytes a sequence of runs encodes (a header with
\* bit 0x80 set and count c, then one byte, for that byte (c & 0x7F) + 2 times;
\* a header b with bit 0x80 clear, then b + 1 bytes, for those bytes), the
\* decoding of the encoding is X; the empty input decodes to the empty output.
C15_DecodesRuns ==
    (rle.out # NotDecoded /\ rle.cut = "none") =>
        rle.out = [kind |-> "ok", data |-> rle.x]

\* C15 witness: [0x82,0xAB,0x01,0x11,0x22] decoded to
\* [0xAB,0xAB,0xAB,0xAB,0x11,0x22].
C15_Witness ==
    /\ rle.e = <<130, 171, 1, 17, 34>>
    /\ rle.out = [kind |-> "ok", data |-> <<171, 171, 171, 171, 17, 34>>]

\* C16: an encoding that ends in a repeat-run header with no byte after it,
\* or in a literal-run header b with fewer than b + 1 bytes after it, makes
\* decompress_data return an error and no output, and the loop that entered
\* Done with it as a compressed payload terminate with the error, nothing
\* delivered.
C16_TruncatedRunIsError ==
    (rle.out # NotDecoded /\ rle.cut # "none") =>
        /\ rle.out.kind = "err"
        /\ rle.status = "failed"
        /\ rle.delivered = NoPayload

\* C16 witness: a complete run and then a literal run of 128 bytes of which
\* 127 are there, decoded to an error.
C16_Witness ==
    /\ rle.cut = "literal"
    /\ rle.runs = 2
    /\ Len(rle.e) >= 130
    /\ rle.e[Len(rle.e) - 127] = 127
    /\ rle.out.kind = "err"
    /\ rle.status = "failed"

-----------------------------------------------------------------------------
(* Claims about the debouncer of main_loop                                 *)

\* C17: an edge event is dropped exactly when its direction is that of the
\* last event kept; a dropped event leaves the mirror SCK level, the lines,
\* the debouncer memory and the FSM alone and recv() is not called for it (the
\* engine is as it was, or reset by the idle check); an event that is kept
\* sets the mirror to its direction before recv() is called, so the level
\* recv() reads differs from the level the recv() call before it read, and a
\* recv() call that samples SOUT (SCK low) follows one that read SCK high or
\* is the first call.
C17_DebounceAlternatesSck ==
    [][/\ ev'.kind \in {"edge", "duplicate"} =>
             (ev'.kind = "duplicate" <=> ev'.dir = last_line_event_type)
       /\ ev'.kind = "duplicate" =>
             /\ UNCHANGED <<sck, sin, sout, last_line_event_type, printer_state, loop_st>>
             /\ peripheral' = IdleCheck(peripheral, ev'.elapsed)
       /\ ev'.kind = "edge" =>
             /\ sck' = (ev'.dir = "RisingEdge")
             /\ last_line_event_type' = ev'.dir
             /\ last_line_event_type # "None" => sck' # sck
             /\ ~sck' => (sck \/ last_line_event_type = "None")]_vars

\* C17 witness: a duplicate falling edge was dropped in the middle of a byte,
\* SCK low, three bits sampled.
C17_Witness ==
    /\ ev.kind = "duplicate"
    /\ ev.dir = "FallingEdge"
    /\ ~sck
    /\ peripheral.gb_bit = 3

-----------------------------------------------------------------------------
(* transition folded over one packet with a payload of up to 258 bytes, in *)
(* a build with and in a build without overflow checks.                    *)

PacketLenLow == {0, 1, 2}

PacketLenHigh == {0, 1}

PacketFills == {"ramp", "0xFF"}

\* The bytes that follow the payload: checksum, keepalive, status.
PacketTrailerBytes == {0, 1, 254}

\* The i-th payload byte the console sends.
Fill(fill, i) == IF fill = "0xFF" THEN 255 ELSE i % 256

InitPacket ==
    \E cmd \in {1, 4}, compression \in {0, 1}, len_low \in PacketLenLow,
       len_high \in PacketLenHigh, fill \in PacketFills, overflow_checks \in BOOLEAN :
        /\ pkt = [header |-> <<PRINTER_MAGIC_0, PRINTER_MAGIC_1, cmd, compression,
                               len_low, len_high>>,
                  fed |-> <<>>, len |-> len_high * 256 + len_low, fill |-> fill,
                  sum |-> 0, overflow_checks |-> overflow_checks,
                  result |-> Ok(Magic0)]
        /\ rle = NoRle
        /\ sck = FALSE
        /\ sin = FALSE
        /\ sout = FALSE
        /\ InitCtlVars
        /\ InitPerVars
        /\ InitLoopVars
        /\ InitFsmVars
        /\ InitLbVars

PacketFrame == UNCHANGED <<rle, ctlVars, perVars, lineVars, loopVars, fsmVars, lbVars>>

\* The next byte of the packet's first six is given to transition.
PacketHeader ==
    /\ pkt.header # <<>>
    /\ pkt.result.kind = "ok"
    /\ pkt' = [pkt EXCEPT
                  !.header = Tail(@),
                  !.result = TransitionBuilt(pkt.result.state, Head(pkt.header),
                                             pkt.overflow_checks)]
    /\ PacketFrame

\* A byte that follows the length bytes is given to transition: the next
\* payload byte while fewer than `len` have been sent, any trailer byte after.
PacketFeed ==
    \E b \in 0..255 :
        /\ pkt.header = <<>>
        /\ pkt.result.kind = "ok"
        /\ Len(pkt.fed) < pkt.len + 4
        /\ IF Len(pkt.fed) < pkt.len
           THEN b = Fill(pkt.fill, Len(pkt.fed) + 1)
           ELSE b \in PacketTrailerBytes
        /\ pkt' = [pkt EXCEPT
                      !.fed = Append(@, b),
                      !.sum = IF Len(pkt.fed) < pkt.len THEN @ + b ELSE @,
                      !.result = TransitionBuilt(pkt.result.state, b, pkt.overflow_checks)]
        /\ PacketFrame

NextPacket == PacketHeader \/ PacketFeed

SpecPacket == InitPacket /\ [][NextPacket]_vars

\* C18: with L = (len_hi << 8) | len_lo declared and n bytes given to the FSM
\* since, the FSM is in Data with the n bytes at positions 0..n-1 of a buffer
\* of L bytes and L - n to come while n < L; it is in CheckSum0 with exactly
\* the L bytes as payload when n = L (at once when L = 0); and it has taken
\* the byte after them as the low checksum byte when n = L + 1.
C18_PayloadCollected ==
    (pkt.header = <<>> /\ pkt.result.kind = "ok") =>
        LET n == Len(pkt.fed)
            L == pkt.len
            st == pkt.result.state
        IN /\ n < L =>
                 /\ st.tag = "Data"
                 /\ st.len = L
                 /\ st.index = L - n
                 /\ Len(st.payload) = L
                 /\ \A k \in 1..n : st.payload[k] = pkt.fed[k]
           /\ n = L =>
                 /\ st.tag = "CheckSum0"
                 /\ st.payload = pkt.fed
           /\ n = L + 1 =>
                 /\ st.tag = "CheckSum1"
                 /\ st.payload = SubSeq(pkt.fed, 1, L)
                 /\ st.checksum0 = pkt.fed[L + 1]

\* C18 witness: 258 bytes (len_lo 2, len_hi 1) stored in the order sent and
\* the 259th taken as the low checksum byte.
C18_Witness ==
    /\ pkt.header = <<>>
    /\ pkt.len = 258
    /\ pkt.fill = "ramp"
    /\ Len(pkt.fed) = 259
    /\ pkt.result.kind = "ok"
    /\ pkt.result.state.tag = "CheckSum1"
    /\ pkt.result.state.payload[258] = 2
    /\ pkt.result.state.checksum0 = 254

\* C19: when the high checksum byte has been given to the FSM, the transition
\* has succeeded, the FSM is in Keepalive and its checksum is the sum of the
\* payload bytes alone modulo 65536, whatever that sum is.
C19_ChecksumWrapsAround ==
    (pkt.header = <<>> /\ Len(pkt.fed) = pkt.len + 2) =>
        /\ pkt.result.kind = "ok"
        /\ pkt.result.state.tag = "Keepalive"
        /\ pkt.result.state.checksum = pkt.sum % 65536

-----------------------------------------------------------------------------
(* Either engine on its own bus: a Controller and a Peripheral are two     *)
(* objects that share no field, so a run exercises one of them; the other  *)
(* stays as constructed.                                                   *)

ControllerUntouched ==
    /\ controller = ControllerNew
    /\ c_out = IdleOut

PeripheralUntouched ==
    /\ peripheral = PeripheralNew
    /\ p_out = NoCall
    /\ p_trace = NoTrace

\* A push or a tick of the Controller.
EngineController == PeripheralUntouched /\ NextController

\* A push, a recv() or a reset() of the Peripheral.
EnginePeripheral == ControllerUntouched /\ NextPeripheral

NextEngines == EngineController \/ EnginePeripheral

SpecEngines == InitController /\ [][NextEngines]_vars

\* C21: after every tick of the Controller and after every recv() and reset()
\* of the Peripheral, for every level of the lines, gb_bit is at least 0 and
\* less than 8.
C21_BitIndexInRange ==
    /\ controller.gb_bit \in 0..7
    /\ peripheral.gb_bit \in 0..7

\* C21 witness: the Controller's tick that took the 8th bit returned the byte
\* and left gb_bit at 0.
C21_Witness ==
    /\ c_out.called
    /\ c_out.result.kind = "byte"
    /\ controller.gb_bit = 0

-----------------------------------------------------------------------------
(* Claims about the response queue in main_loop                            *)

\* C23: whenever the loop awaits the next event (and when it has returned),
\* the response queue of the engine holds no byte or one byte, far from the
\* BUF_LEN bytes at which push_back would evict one.
C23_QueueAtMostOne ==
    /\ Len(peripheral.recv_buf) <= 1
    /\ Len(peripheral.recv_buf) < BUF_LEN

\* C23 witness: the status byte has just been pushed, the alive byte pushed
\* before it having been taken by recv(), and the queue holds one byte.
C23_Witness ==
    /\ Entered("Status")
    /\ resp.log = <<PrinterAlive_Alive, ev.pushed>>
    /\ peripheral.recv_buf = <<ev.pushed>>

\* C24: in every Data state the FSM reaches, 1 <= index <= len, the payload
\* buffer has exactly len elements, the position len - index written next is
\* one of its positions (0 .. len - 1) and index - 1 is not negative; Data is
\* never entered with len = 0.
C24_DataIndexWithinBuffer ==
    (pkt.result.kind = "ok" /\ pkt.result.state.tag = "Data") =>
        LET st == pkt.result.state
        IN /\ st.len # 0
           /\ 1 <= st.index
           /\ st.index <= st.len
           /\ Len(st.payload) = st.len
           /\ (st.len - st.index) \in 0..(Len(st.payload) - 1)
           /\ st.index - 1 >= 0

\* C24 witness: Data with one byte left to come of 258, the write position
\* being the last of the buffer.
C24_Witness ==
    /\ pkt.result.kind = "ok"
    /\ pkt.result.state.tag = "Data"
    /\ pkt.result.state.len = 258
    /\ pkt.result.state.index = 1
    /\ Len(pkt.fed) = 257

=============================================================================
